---- MODULE Spec2Model ----
(***************************************************************************)
(* A model of perfect_job_scraper.py: the salary normaliser, the           *)
(* relevance scorer, the process-and-rank pipeline and the concurrent      *)
(* fan-out of scrape_all_sources.                                          *)
(*                                                                         *)
(* Text is modelled by TLA+ strings, read one character at a time with     *)
(* SubSeq.  TLA+ strings are ASCII, so U+2013 (en dash) is written EnDash  *)
(* and U+2014 (em dash) is written EmDash.  Python floats are modelled by  *)
(* exact rationals [n, d] in lowest terms.                                 *)
(***************************************************************************)
EXTENDS Integers, Sequences, FiniteSets, TLC

VARIABLES
    salary_text,    \* parse_salary_to_number: the argument (a Python value)
    salary_ret,     \* parse_salary_to_number: the outcome, NoCall before the call
    score_job,      \* calculate_relevance_score: the job argument
    score_keywords, \* calculate_relevance_score: search_keywords
    score_location, \* calculate_relevance_score: location_keywords
    score_ret,      \* calculate_relevance_score: the outcome, NoCall before the call
    jobs,           \* process_and_rank_jobs: the jobs argument, a list of records
    use_ai,         \* process_and_rank_jobs: the use_ai argument
    ai_results,     \* what analysis_crew.kickoff() yields for the job at each index label
    df,             \* process_and_rank_jobs: the DataFrame, a sequence of rows
    rank_pc,        \* process_and_rank_jobs: the position in the function
    enrich,         \* how ai_enhanced_job_ranking went: "none", "ok" or "failed"
    rank_ret,       \* process_and_rank_jobs: the outcome, NoCall while it runs
    run_outcome,    \* run_perfect_job_scraper: how the run ended, "running" before
    chrome_available, \* whether webdriver.Chrome() can start a browser on this machine
    driver,         \* self.driver: "None" or "chrome"
    worker_pc,      \* scrape_all_sources: where the thread of each adapter stands
    future,         \* scrape_all_sources: the outcome of each future, NoCall while it runs
    collected,      \* the futures the as_completed loop has taken
    all_jobs,       \* scrape_all_sources: the merged list
    scrape_pc,      \* scrape_all_sources: the position of the main thread
    scrape_ret,     \* scrape_all_sources: the outcome, NoCall while it runs
    source_results, \* scrape_all_sources: the per-source summary, a dict source -> count
    driver_access,  \* which adapter task has read or written self.driver
    browsers_created, \* how many times webdriver.Chrome() has given a browser
    run_exit,       \* run_perfect_job_scraper: the path its try block was left by
    close_calls,    \* how many times close_driver has been called
    quit_calls,     \* how many times self.driver.quit() has been called
    page_adapter,   \* a paginated adapter: which of the six runs
    max_pages,      \* a paginated adapter: its max_pages argument
    page,           \* a paginated adapter: the loop variable, counted from 0
    page_log,       \* a paginated adapter: the pages requested so far and what each gave
    page_pc,        \* a paginated adapter: "loop" inside the page loop, "returned" after it
    adapter_jobs,   \* a paginated adapter: its list jobs, a record named by the page it is from
    page_ret,       \* a paginated adapter: the outcome, NoCall while it runs
    shown,          \* the shared browser: the site whose page it shows
    task_pc,        \* the shared browser: the position of each adapter task that uses it
    task_page,      \* the shared browser: the pages each task has requested
    last_read       \* the shared browser: the task that read cards last, and the page shown then

salaryVars == <<salary_text, salary_ret>>
scoreVars == <<score_job, score_keywords, score_location, score_ret>>
rankVars == <<jobs, use_ai, ai_results, df, rank_pc, enrich, rank_ret, run_outcome>>
scrapeVars ==
    <<chrome_available, driver, worker_pc, future, collected, all_jobs, scrape_pc, scrape_ret,
      source_results, driver_access, browsers_created, run_exit, close_calls, quit_calls>>
runVars == <<run_exit, close_calls, quit_calls>>
pageVars == <<page_adapter, max_pages, page, page_log, page_pc, adapter_jobs, page_ret>>
browserVars == <<shown, task_pc, task_page, last_read>>

vars ==
    <<salary_text, salary_ret, score_job, score_keywords, score_location, score_ret,
      jobs, use_ai, ai_results, df, rank_pc, enrich, rank_ret, run_outcome,
      chrome_available, driver, worker_pc, future, collected, all_jobs, scrape_pc, scrape_ret,
      source_results, driver_access, browsers_created, run_exit, close_calls, quit_calls,
      page_adapter, max_pages, page, page_log, page_pc, adapter_jobs, page_ret,
      shown, task_pc, task_page, last_read>>

-----------------------------------------------------------------------------
(* Python values that can sit in a text field of a record.                 *)

PyStr(s) == [py |-> "str", s |-> s]
PyNone == [py |-> "NoneType"]
PyInt(i) == [py |-> "int", i |-> i]
PyNaN == [py |-> "float"]

IsStr(v) == v.py = "str"

\* bool(v): None, "" and 0 are falsy; a non-zero number and NaN are truthy.
Truthy(v) ==
    CASE v.py = "str" -> v.s # ""
      [] v.py = "int" -> v.i # 0
      [] v.py = "NoneType" -> FALSE
      [] OTHER -> TRUE

-----------------------------------------------------------------------------
(* Outcomes of a call: a returned value or a propagated exception.         *)

NoCall == [kind |-> "none"]
Return(v) == [kind |-> "return", value |-> v]
Raise(e) == [kind |-> "raise", exc |-> e]

-----------------------------------------------------------------------------
(* Exact rationals in lowest terms, standing for Python floats.            *)

RECURSIVE Gcd(_, _)
Gcd(a, b) == IF b = 0 THEN a ELSE Gcd(b, a % b)

Rat(n, d) == LET g == Gcd(n, d) IN [n |-> n \div g, d |-> d \div g]
RatInt(i) == [n |-> i, d |-> 1]
RatZero == RatInt(0)
RatMul(r, k) == Rat(r.n * k, r.d)
RatAdd(a, b) == Rat(a.n * b.d + b.n * a.d, a.d * b.d)
RatHalf(r) == Rat(r.n, r.d * 2)
RatGt(r, k) == r.n > k * r.d
RatGe(r, k) == r.n >= k * r.d
RatLe(a, b) == a.n * b.d <= b.n * a.d
RatMax(a, b) == IF RatLe(a, b) THEN b ELSE a
RatIsInt(r, k) == r.d = 1 /\ r.n = k

-----------------------------------------------------------------------------
(* str methods and the `in` operator.                                      *)

EnDash == "~"
EmDash == "^"

Ch(s, i) == SubSeq(s, i, i)
From(s, i) == SubSeq(s, i, Len(s))

UpperCase == "ABCDEFGHIJKLMNOPQRSTUVWXYZ"
LowerCase == "abcdefghijklmnopqrstuvwxyz"

LowerCh(c) ==
    IF \E i \in 1..Len(UpperCase) : Ch(UpperCase, i) = c
    THEN Ch(LowerCase, CHOOSE i \in 1..Len(UpperCase) : Ch(UpperCase, i) = c)
    ELSE c

\* s.lower()
RECURSIVE Lower(_)
Lower(s) == IF s = "" THEN "" ELSE LowerCh(Ch(s, 1)) \o Lower(From(s, 2))

\* t in s
Contains(t, s) ==
    \/ t = ""
    \/ \E i \in 1..(Len(s) - Len(t) + 1) : SubSeq(s, i, i + Len(t) - 1) = t

\* any(term in s for term in terms)
AnyIn(terms, s) == \E i \in 1..Len(terms) : Contains(terms[i], s)

\* s.replace(old, ''), old non-empty: leftmost occurrences, not overlapping
RECURSIVE Remove(_, _)
Remove(s, old) ==
    IF Len(s) < Len(old) THEN s
    ELSE IF SubSeq(s, 1, Len(old)) = old THEN Remove(From(s, Len(old) + 1), old)
    ELSE Ch(s, 1) \o Remove(From(s, 2), old)

IsSpace(c) == c \in {" ", "\t", "\n", "\r"}

\* s.strip()
Strip(s) ==
    LET keep == {i \in 1..Len(s) : ~IsSpace(Ch(s, i))}
    IN  IF keep = {} THEN ""
        ELSE SubSeq(s, CHOOSE i \in keep : \A j \in keep : i <= j,
                       CHOOSE i \in keep : \A j \in keep : j <= i)

IsDigit(c) == c \in {"0", "1", "2", "3", "4", "5", "6", "7", "8", "9"}

DigitVal(c) ==
    CASE c = "0" -> 0 [] c = "1" -> 1 [] c = "2" -> 2 [] c = "3" -> 3
      [] c = "4" -> 4 [] c = "5" -> 5 [] c = "6" -> 6 [] c = "7" -> 7
      [] c = "8" -> 8 [] c = "9" -> 9

\* int(s) for a string of decimal digits
RECURSIVE DigitsToNat(_)
DigitsToNat(s) ==
    IF s = "" THEN 0
    ELSE DigitsToNat(SubSeq(s, 1, Len(s) - 1)) * 10 + DigitVal(Ch(s, Len(s)))

RECURSIVE Pow10(_)
Pow10(k) == IF k = 0 THEN 1 ELSE 10 * Pow10(k - 1)

\* float(s) for s matching \d+(?:\.\d+)?
ParseFloat(s) ==
    LET dots == {i \in 1..Len(s) : Ch(s, i) = "."}
    IN  IF dots = {} THEN RatInt(DigitsToNat(s))
        ELSE LET p == CHOOSE i \in dots : TRUE
                 frac == From(s, p + 1)
             IN  Rat(DigitsToNat(SubSeq(s, 1, p - 1)) * Pow10(Len(frac)) + DigitsToNat(frac),
                     Pow10(Len(frac)))

-----------------------------------------------------------------------------
(* The two regular expressions of _extract_number.                         *)

\* the end of the maximal run of digits that starts at i
RunEnd(s, i) ==
    CHOOSE j \in i..Len(s) :
        /\ \A m \in i..j : IsDigit(Ch(s, m))
        /\ j = Len(s) \/ ~IsDigit(Ch(s, j + 1))

\* (?:\.\d+)? after the digits that end at e: greedy, so taken when it matches
FractionEnd(s, e) ==
    IF e + 2 <= Len(s) /\ Ch(s, e + 1) = "." /\ IsDigit(Ch(s, e + 2))
    THEN RunEnd(s, e + 2)
    ELSE e

\* the end of the greedy match of \d+(?:\.\d+)? that starts at the digit at i
NumberEnd(s, i) == FractionEnd(s, RunEnd(s, i))

\* re.search(r'(\d+(?:\.\d+)?)', text): the positions where a match can start
NumberStarts(s) == {i \in 1..Len(s) : IsDigit(Ch(s, i))}

\* re.search(r'(\d+(?:\.\d+)?)k', text): a match starts at i exactly when the
\* greedy number at i is followed by k (a shorter number is followed by a digit
\* or by the dot)
FollowedByK(s, e) == e < Len(s) /\ Ch(s, e + 1) = "k"

KStarts(s) == {i \in NumberStarts(s) : FollowedByK(s, NumberEnd(s, i))}

Leftmost(S) == CHOOSE i \in S : \A j \in S : i <= j

\* match.group(1) of the leftmost match
Group1(s, starts) == LET i == Leftmost(starts) IN SubSeq(s, i, NumberEnd(s, i))

-----------------------------------------------------------------------------
(* PerfectJobScraper._extract_number                                       *)

\* float(match.group(1)) of the leftmost match
FirstNumber(text, starts) == ParseFloat(Group1(text, starts))

\* lines 108-116 with a working year of 2000 hours
ByUnit2000Hours(text, base_num) ==
    IF AnyIn(<<"hour", "hr">>, text) THEN RatMul(base_num, 2000)
    ELSE IF AnyIn(<<"month", "mo">>, text) THEN RatMul(base_num, 12)
    ELSE IF AnyIn(<<"year", "yr", "annually">>, text) \/ RatGt(base_num, 1000) THEN base_num
    ELSE IF RatGt(base_num, 1000) THEN base_num
    ELSE RatMul(base_num, 1000)

\* lines 108-116 with a bare 1000 taken as yearly pay
ByUnitFrom1000(text, base_num) ==
    IF AnyIn(<<"hour", "hr">>, text) THEN RatMul(base_num, 2080)
    ELSE IF AnyIn(<<"month", "mo">>, text) THEN RatMul(base_num, 12)
    ELSE IF AnyIn(<<"year", "yr", "annually">>, text) \/ RatGe(base_num, 1000) THEN base_num
    ELSE RatMul(base_num, 1000)

\* lines 108-116: hourly, monthly, yearly or a bare number
ByUnit(text, base_num) ==
    IF AnyIn(<<"hour", "hr">>, text) THEN RatMul(base_num, 2080)
    ELSE IF AnyIn(<<"month", "mo">>, text) THEN RatMul(base_num, 12)
    ELSE IF AnyIn(<<"year", "yr", "annually">>, text) \/ RatGt(base_num, 1000) THEN base_num
    ELSE IF RatGt(base_num, 1000) THEN base_num
    ELSE RatMul(base_num, 1000)

\* lines 97-118, given where each regular expression can match
ExtractFrom(text, k_starts, number_starts) ==
    IF Contains("k", text) /\ k_starts # {}
    THEN RatMul(FirstNumber(text, k_starts), 1000)
    ELSE IF number_starts # {}
    THEN ByUnit(text, FirstNumber(text, number_starts))
    ELSE RatZero

extract_number(text) == ExtractFrom(text, KStarts(text), NumberStarts(text))

-----------------------------------------------------------------------------
(* PerfectJobScraper.parse_salary_to_number                                *)

IsRangeSep(c) == c \in {"-", EnDash, EmDash}

\* re.split(r'[-–—]', clean_text) has len 2 exactly when one separator occurs
RangeSeps(clean_text) == {i \in 1..Len(clean_text) : IsRangeSep(Ch(clean_text, i))}

\* clean_text of line 76
CleanText(s) == Strip(Remove(Remove(Remove(Lower(s), "$"), ","), "salary:"))

\* re.split(r'[-–—]', clean_text) when one separator occurs, else the text whole
SplitRange(clean_text, seps) ==
    IF Cardinality(seps) = 1
    THEN <<SubSeq(clean_text, 1, Leftmost(seps) - 1), From(clean_text, Leftmost(seps) + 1)>>
    ELSE <<clean_text>>

\* line 86 for a range, line 89 for a single value
Combine(numbers) ==
    IF Len(numbers) = 1 THEN numbers[1]
    ELSE IF numbers[1] # RatZero /\ numbers[2] # RatZero
    THEN RatHalf(RatAdd(numbers[1], numbers[2]))
    ELSE RatMax(numbers[1], numbers[2])

ExtractEach(parts) == [i \in 1..Len(parts) |-> extract_number(parts[i])]

\* lines 79-89: the body of the try block; nothing in it raises on a str
SalaryTryBody(clean_text) == Combine(ExtractEach(SplitRange(clean_text, RangeSeps(clean_text))))

\* The whole function.  Line 76 calls salary_text.lower() before the try block
\* opens at line 79: a truthy value that is no str raises AttributeError there.
parse_salary_to_number(v) ==
    IF ~Truthy(v) \/ v = PyStr("Not specified") THEN Return(RatZero)
    ELSE IF ~IsStr(v) THEN Raise("AttributeError")
    ELSE Return(SalaryTryBody(CleanText(v.s)))

-----------------------------------------------------------------------------
(* Inputs of the salary normaliser: the shapes of salary text the adapters *)
(* extract (lines 203-239, 817, 898) and the values an API field can hold. *)

SalaryPrefixes == {"", "$", "Salary: $", "Up to "}
SalaryNumerals == {"0", "50", "90", "1000", "1001", "1.5", "25.50", "100,000", "120,000"}
SalarySuffixes ==
    {"", "k", "K", "/hour", " hr", " per month", "/mo", " a year", "/yr", " annually", " weekly"}
RangeNumerals == {"0", "50", "90", "100,000", "120,000"}
RangeSuffixes == {"", "k", "/hour"}
RangeWords == {"-", " - ", EnDash, EmDash}

SingleTexts ==
    {p \o n \o u : p \in SalaryPrefixes, n \in SalaryNumerals, u \in SalarySuffixes}
RangeParts == {p \o n \o u : p \in {"", "$"}, n \in RangeNumerals, u \in RangeSuffixes}
RangeTexts == {a \o w \o b : a \in RangeParts, w \in RangeWords, b \in RangeParts}
OddTexts ==
    {"", "Not specified", "not specified", "Competitive", "DOE", "-", "k", "$", "1-2-3",
     "$50-", "-$50", "5.k", "1.5.5k", "$100,000 - $120,000", "$50/hour", "90k", "$140,000"}

SalaryTexts == SingleTexts \cup RangeTexts \cup OddTexts

SalaryValues ==
    {PyStr(s) : s \in SalaryTexts} \cup {PyNone, PyNaN, PyInt(0), PyInt(85000)}

-----------------------------------------------------------------------------
(* PerfectJobScraper.calculate_relevance_score                             *)

\* s.split(','): the pieces between the commas, in order
RECURSIVE SplitComma(_)
SplitComma(s) ==
    LET commas == {i \in 1..Len(s) : Ch(s, i) = ","}
    IN  IF commas = {} THEN <<s>>
        ELSE LET p == Leftmost(commas)
             IN  <<SubSeq(s, 1, p - 1)>> \o SplitComma(From(s, p + 1))

\* the comprehension without its `if kw.strip()`: empty terms are kept
StripLowerKeepEmpty(parts) == [i \in 1..Len(parts) |-> Lower(Strip(parts[i]))]

RECURSIVE StripLowerNonEmpty(_)
StripLowerNonEmpty(parts) ==
    IF parts = <<>> THEN <<>>
    ELSE (IF Strip(Head(parts)) # "" THEN <<Lower(Strip(Head(parts)))>> ELSE <<>>)
         \o StripLowerNonEmpty(Tail(parts))

\* [kw.strip().lower() for kw in keywords.split(',') if kw.strip()]
KeywordTerms(keywords) == StripLowerNonEmpty(SplitComma(keywords))

\* for term in terms: if term in text: score += points
RECURSIVE TermPoints(_, _, _)
TermPoints(terms, text, points) ==
    IF terms = <<>> THEN 0
    ELSE (IF Contains(Head(terms), text) THEN points ELSE 0)
         + TermPoints(Tail(terms), text, points)

\* lines 1299-1302: if senior/lead/principal ... elif junior/entry/intern
LevelBonusBoth(title_lower) ==
    (IF AnyIn(<<"senior", "lead", "principal">>, title_lower) THEN 5 ELSE 0)
    + (IF AnyIn(<<"junior", "entry", "intern">>, title_lower) THEN 3 ELSE 0)

LevelBonus(title_lower) ==
    IF AnyIn(<<"senior", "lead", "principal">>, title_lower) THEN 5
    ELSE IF AnyIn(<<"junior", "entry", "intern">>, title_lower) THEN 3
    ELSE 0

\* lines 1305-1306
RemoteBonus(location_lower) ==
    IF AnyIn(<<"remote", "work from home">>, location_lower) THEN 8 ELSE 0

\* lines 1310-1322
SalaryBonus(salary_numeric) ==
    IF RatGt(salary_numeric, 0)
    THEN 10 + (IF RatGe(salary_numeric, 150000) THEN 15
               ELSE IF RatGe(salary_numeric, 120000) THEN 12
               ELSE IF RatGe(salary_numeric, 90000) THEN 8
               ELSE IF RatGe(salary_numeric, 60000) THEN 5
               ELSE 0)
    ELSE 0

\* lines 1279-1306: the points that do not depend on the salary
TextPoints(title_lower, company_lower, location_lower, summary_lower, search_terms, location_terms) ==
    TermPoints(search_terms, title_lower, 15)
    + TermPoints(search_terms, company_lower, 8)
    + TermPoints(search_terms, summary_lower, 5)
    + TermPoints(location_terms, location_lower, 7)
    + LevelBonus(title_lower)
    + RemoteBonus(location_lower)

\* lines 1309-1330: the salary is parsed last, and its exception propagates
AddSalaryBonus(score, salary) ==
    IF salary.kind = "raise" THEN salary ELSE Return(score + SalaryBonus(salary.value))

\* The whole function.  job['company'].lower() (line 1270) raises on a company
\* that is no str, and parse_salary_to_number (line 1309) can raise.
calculate_relevance_score(job, search_keywords, location_keywords) ==
    IF ~IsStr(job.company) THEN Raise("AttributeError")
    ELSE AddSalaryBonus(
            TextPoints(Lower(job.title), Lower(job.company.s), Lower(job.location),
                       Lower(job.summary), KeywordTerms(search_keywords),
                       KeywordTerms(location_keywords)),
            parse_salary_to_number(job.salary))

\* a record as the adapters build it (lines 250-262)
Job(title, company, location, salary, summary, source) ==
    [title |-> title, company |-> company, location |-> location,
     salary |-> salary, summary |-> summary, source |-> source]

-----------------------------------------------------------------------------
(* Inputs of the relevance scorer.                                         *)

ScoreTitles ==
    {"Senior Python Developer", "Junior AWS Engineer", "Senior Intern Coordinator", "Data Analyst"}
ScoreCompanies == {PyStr("Acme"), PyStr("Python Software Foundation"), PyNone}
ScoreLocations == {"Remote", "New York, NY", "Work From Home"}
ScoreSummaries == {"", "Build services in Python on AWS"}
ScoreSalaries ==
    {PyStr("Not specified"), PyStr("$140,000"), PyStr("$50/hour"), PyStr("$160k"),
     PyStr("45k"), PyStr("$60,000"), PyInt(85000)}
ScoreKeywords == {"Python, AWS", "python", "", " , ", "AWS,AWS", "Python,,Intern"}
ScoreLocationKeywords == {"Remote", "", "New York, Remote"}

ScoreJobs ==
    {Job(t, c, l, s, d, "Indeed") :
        t \in ScoreTitles, c \in ScoreCompanies, l \in ScoreLocations,
        s \in ScoreSalaries, d \in ScoreSummaries}

-----------------------------------------------------------------------------
(* Variables a specification leaves alone.                                 *)

IdleSalary == salary_text = PyNone /\ salary_ret = NoCall
IdleScore ==
    /\ score_job = Job("", PyNone, "", PyNone, "", "")
    /\ score_keywords = ""
    /\ score_location = ""
    /\ score_ret = NoCall
IdleRank ==
    /\ jobs = <<>>
    /\ use_ai = FALSE
    /\ ai_results = <<>>
    /\ df = <<>>
    /\ rank_pc = "idle"
    /\ enrich = "none"
    /\ rank_ret = NoCall
    /\ run_outcome = "idle"
IdleScrape ==
    /\ chrome_available = FALSE
    /\ driver = "None"
    /\ worker_pc = <<>>
    /\ future = <<>>
    /\ collected = {}
    /\ all_jobs = <<>>
    /\ scrape_pc = "idle"
    /\ scrape_ret = NoCall
    /\ source_results = <<>>
    /\ driver_access = {}
    /\ browsers_created = 0
    /\ run_exit = "idle"
    /\ close_calls = 0
    /\ quit_calls = 0

IdleBrowser ==
    /\ shown = "no browser"
    /\ task_pc = <<>>
    /\ task_page = <<>>
    /\ last_read = <<>>

IdlePages ==
    /\ page_adapter = "none"
    /\ max_pages = 0
    /\ page = 0
    /\ page_log = <<>>
    /\ page_pc = "idle"
    /\ adapter_jobs = <<>>
    /\ page_ret = NoCall

-----------------------------------------------------------------------------
(* DataFrame: a sequence of rows; a row is a record whose fields are the   *)
(* columns, with idx the index label.                                      *)

\* pd.DataFrame(jobs): index labels 0..n-1
DataFrame(records) == [i \in 1..Len(records) |-> [idx |-> i - 1] @@ records[i]]

HasColumn(frame, col) == \A i \in 1..Len(frame) : col \in DOMAIN frame[i]

\* frame[col] = value-of-row: the column is added or overwritten
WithColumn(row, col, value) == [c \in (DOMAIN row) \cup {col} |-> IF c = col THEN value ELSE row[c]]

\* df.head(n) and df.iloc[n:]
HeadRows(frame, n) == SubSeq(frame, 1, IF Len(frame) < n THEN Len(frame) ELSE n)
TailRows(frame, n) == SubSeq(frame, n + 1, Len(frame))

\* df.drop_duplicates(subset=['title', 'company'], keep='first'): a row goes when
\* an earlier row holds the same title and the same company, compared as they are
DropDuplicatesKeepLast(frame) ==
    LET dup(i) == \E j \in (i + 1)..Len(frame) :
                      /\ frame[j].title = frame[i].title
                      /\ frame[j].company = frame[i].company
        F[i \in 0..Len(frame)] ==
            IF i = 0 THEN <<>> ELSE IF dup(i) THEN F[i - 1] ELSE Append(F[i - 1], frame[i])
    IN  F[Len(frame)]

DropDuplicates(frame) ==
    LET dup(i) == \E j \in 1..(i - 1) :
                      /\ frame[j].title = frame[i].title
                      /\ frame[j].company = frame[i].company
        F[i \in 0..Len(frame)] ==
            IF i = 0 THEN <<>> ELSE IF dup(i) THEN F[i - 1] ELSE Append(F[i - 1], frame[i])
    IN  F[Len(frame)]

\* Series.str.strip(): a cell that is no str is left as it is (NaN)
StrStrip(v) == IF IsStr(v) THEN PyStr(Strip(v.s)) ELSE v

\* lines 1350-1352
CleanRow(row) ==
    [row EXCEPT !.title = Strip(@), !.company = StrStrip(@), !.location = Strip(@)]

\* a score column as a rational: relevance_score holds ints, final_ai_score floats
KeyOf(row, col) == IF col = "final_ai_score" THEN row[col] ELSE RatInt(row[col])

\* The tie orders of sort_values: its default kind, quicksort, is not stable, so
\* rows with equal keys come out in an order the caller does not control.
TieOrders == {"kept", "reversed"}

\* row i comes before row j in the sorted frame
SortsBefore(frame, col, tie, i, j) ==
    \/ ~RatLe(KeyOf(frame[i], col), KeyOf(frame[j], col))
    \/ /\ KeyOf(frame[i], col) = KeyOf(frame[j], col)
       /\ IF tie = "kept" THEN i < j ELSE i > j

SortPlace(frame, col, tie, i) ==
    1 + Cardinality({j \in 1..Len(frame) : SortsBefore(frame, col, tie, j, i)})

\* df.sort_values(col), ascending
SortValuesAscending(frame, col, tie) ==
    [k \in 1..Len(frame) |->
        frame[CHOOSE i \in 1..Len(frame) : SortPlace(frame, col, tie, i) = Len(frame) + 1 - k]]

\* df.sort_values(col, ascending=False)
SortValues(frame, col, tie) ==
    [k \in 1..Len(frame) |->
        frame[CHOOSE i \in 1..Len(frame) : SortPlace(frame, col, tie, i) = k]]

\* df[col] = range(first, first + len(df))
WithRange(frame, col, first) ==
    [i \in 1..Len(frame) |-> WithColumn(frame[i], col, first + i - 1)]

-----------------------------------------------------------------------------
(* PerfectJobScraper.ai_enhanced_relevance_scoring                         *)

\* what analysis_crew.kickoff() does for one job: it raises, or its text holds
\* no 'SCORE: <digits>', or it holds one
AIRaises == [ai |-> "raises"]
AINoScore == [ai |-> "no score"]
AIScore(n) == [ai |-> "score", score |-> n]

\* lines 1025-1051: the score of the analysis, or the traditional score when the
\* analysis raises or holds no score; line 987 parses the salary before the try
\* block opens
ScoreOrFallback(salary, kickoff, fallback) ==
    IF salary.kind = "raise" THEN salary
    ELSE IF kickoff.ai = "score" THEN Return(kickoff.score)
    ELSE fallback

\* lines 983-1051, the whole function
ai_enhanced_relevance_scoring(job, search_keywords, location_keywords, kickoff) ==
    ScoreOrFallback(parse_salary_to_number(job.salary), kickoff,
                    calculate_relevance_score(job, search_keywords, location_keywords))

-----------------------------------------------------------------------------
(* PerfectJobScraper.ai_enhanced_job_ranking                               *)

TopK == 20

\* lines 1157-1160: +5 per technology named in the title or the summary
RECURSIVE TechPoints(_, _, _)
TechPoints(techs, title_lower, summary_lower) ==
    IF techs = <<>> THEN 0
    ELSE (IF Contains(Head(techs), title_lower) \/ Contains(Head(techs), summary_lower)
          THEN 5 ELSE 0)
         + TechPoints(Tail(techs), title_lower, summary_lower)

\* lines 1145-1180, for a row whose company is a str
CareerScore(row) ==
    LET title_lower == Lower(row.title)
        company_lower == Lower(row.company.s)
    IN  (IF AnyIn(<<"senior", "lead", "principal">>, title_lower) THEN 15
         ELSE IF AnyIn(<<"mid", "intermediate">>, title_lower) THEN 10
         ELSE 0)
        + TechPoints(<<"ai", "machine learning", "cloud", "aws", "kubernetes", "react", "python">>,
                     title_lower, Lower(row.summary))
        + (IF AnyIn(<<"google", "microsoft", "amazon", "apple", "meta", "netflix">>, company_lower)
           THEN 20 ELSE 0)
        + (IF RatGt(row.salary_numeric, 0)
           THEN (IF RatGe(row.salary_numeric, 200000) THEN 25
                 ELSE IF RatGe(row.salary_numeric, 150000) THEN 20
                 ELSE IF RatGe(row.salary_numeric, 120000) THEN 15
                 ELSE IF RatGe(row.salary_numeric, 90000) THEN 10
                 ELSE IF RatGe(row.salary_numeric, 60000) THEN 5
                 ELSE 0)
           ELSE 0)

\* line 1185: relevance_score * 0.6 + ai_career_score * 0.4
FinalAIScoreSwapped(relevance_score, ai_career_score) ==
    Rat(4 * relevance_score + 6 * ai_career_score, 10)

FinalAIScore(relevance_score, ai_career_score) ==
    Rat(6 * relevance_score + 4 * ai_career_score, 10)

\* lines 1143-1182: job['company'].lower() raises on a company that is no str
TryBlockRaises(frame) ==
    \E i \in 1..Len(HeadRows(frame, TopK)) : ~IsStr(frame[i].company)

\* lines 1137-1191: the top slice with its scores, sorted
TopJobs(frame, tie) ==
    LET top_jobs == HeadRows(frame, TopK)
        scored == [i \in 1..Len(top_jobs) |->
                      LET career == CareerScore(top_jobs[i])
                      IN  WithColumn(WithColumn(top_jobs[i], "ai_career_score", career),
                                     "final_ai_score",
                                     FinalAIScore(top_jobs[i].relevance_score, career))]
    IN  WithRange(SortValues(scored, "final_ai_score", tie), "ai_rank", 1)

\* lines 1194-1197
RemainingJobs(frame) ==
    LET remaining_jobs == TailRows(frame, TopK)
        scored == [i \in 1..Len(remaining_jobs) |->
                      WithColumn(WithColumn(remaining_jobs[i], "ai_career_score", 0),
                                 "final_ai_score", RatInt(remaining_jobs[i].relevance_score))]
    IN  WithRange(scored, "ai_rank", Len(HeadRows(frame, TopK)) + 1)

\* line 1200: pd.concat([top_jobs, remaining_jobs], ignore_index=True)
ConcatIgnoreIndex(a, b) ==
    LET both == a \o b IN [i \in 1..Len(both) |-> [both[i] EXCEPT !.idx = i - 1]]

\* lines 1204-1210, the except block: it reads jobs_df['rank'], a column that
\* process_and_rank_jobs adds only after this call (line 1371)
RankingExceptBlock(frame) ==
    IF HasColumn(frame, "rank")
    THEN Return([i \in 1..Len(frame) |->
                    WithColumn(WithColumn(WithColumn(frame[i], "ai_career_score", 0),
                                          "final_ai_score", RatInt(frame[i].relevance_score)),
                               "ai_rank", frame[i].rank)])
    ELSE Raise("KeyError")

\* the whole function
ai_enhanced_job_ranking(frame, tie) ==
    IF TryBlockRaises(frame) THEN RankingExceptBlock(frame)
    ELSE Return(ConcatIgnoreIndex(TopJobs(frame, tie), RemainingJobs(frame)))

-----------------------------------------------------------------------------
(* Inputs of process_and_rank_jobs.                                        *)

MaxJobs == 2

SearchKeywords == "Python, AWS"
LocationKeywords == "Remote"

RECURSIVE NatToStr(_)
NatToStr(n) ==
    IF n < 10 THEN Ch("0123456789", n + 1)
    ELSE NatToStr(n \div 10) \o Ch("0123456789", (n % 10) + 1)

\* n records of distinct titles that match no keyword
FillerJobs(n) ==
    [k \in 1..n |-> Job("Clerk " \o NatToStr(k), PyStr("Acme"), "Boise",
                        PyStr("Not specified"), "", "Indeed")]

JobPool ==
    { Job("Senior Python Developer", PyStr("Acme"), "Remote", PyStr("$140,000"),
          "Build services in Python on AWS", "Indeed"),
      Job("senior python developer ", PyStr("Acme"), "Remote", PyStr("Not specified"),
          "", "Remotive API"),
      Job("Senior Python Developer", PyStr("Acme"), "Austin, TX", PyStr("$120k"),
          "", "LinkedIn"),
      Job("Cloud Engineer", PyNone, "Remote", PyStr("90k"), "", "Remotive API"),
      Job("ML Intern", PyStr("Google"), "Remote", PyInt(85000), "", "Remotive API") }

SeqsUpTo(S, n) == UNION {[1..k -> S] : k \in 0..n}

FillerSizes == {0, TopK - 1}

\* the analyses drawn for the records of JobPool (a filler record gets AINoScore)
AIResponses == {AIRaises, AIScore(70), AIScore(80)}

-----------------------------------------------------------------------------
(* process_and_rank_jobs, one step per stage of the function.              *)

InitRank ==
    /\ \E n \in FillerSizes, rest \in SeqsUpTo(JobPool, MaxJobs) :
          /\ jobs = FillerJobs(n) \o rest
          /\ use_ai \in BOOLEAN
          /\ ai_results \in
                IF use_ai
                THEN {[i \in 1..n |-> AINoScore] \o r : r \in [1..Len(rest) -> AIResponses]}
                ELSE {<<>>}
    /\ df = <<>>
    /\ rank_pc = "start"
    /\ enrich = "none"
    /\ rank_ret = NoCall
    /\ run_outcome = "running"
    /\ IdleSalary
    /\ IdleScore
    /\ IdleScrape
    /\ IdlePages
    /\ IdleBrowser

\* lines 1334-1347: the empty case returns at once; otherwise the frame is built
\* and its duplicates are dropped
RemoveDuplicates ==
    /\ rank_pc = "start"
    /\ IF jobs = <<>>
       THEN /\ rank_pc' = "done"
            /\ rank_ret' = Return("")
            /\ df' = <<>>
       ELSE /\ rank_pc' = "deduplicated"
            /\ df' = DropDuplicates(DataFrame(jobs))
            /\ UNCHANGED rank_ret
    /\ UNCHANGED <<jobs, use_ai, ai_results, enrich, run_outcome, salaryVars, scoreVars, scrapeVars, pageVars, browserVars>>

\* the rows at which a loop over the frame raises
Raising(outs) == {i \in 1..Len(outs) : outs[i].kind = "raise"}

\* frame[col] = the values returned for the rows
WithValues(frame, col, outs) ==
    [i \in 1..Len(frame) |-> WithColumn(frame[i], col, outs[i].value)]

\* a stage that applies a function to every row: the first exception leaves the
\* function, otherwise the frame goes on to the next stage
StageOver(frame, col, outs, next_pc) ==
    IF Raising(outs) # {}
    THEN /\ rank_pc' = "done"
         /\ rank_ret' = outs[Leftmost(Raising(outs))]
         /\ df' = frame
    ELSE /\ rank_pc' = next_pc
         /\ df' = WithValues(frame, col, outs)
         /\ UNCHANGED rank_ret

CleanRows(frame) == [i \in 1..Len(frame) |-> CleanRow(frame[i])]

ParseSalariesUnknown(frame) == [i \in 1..Len(frame) |-> Return(RatZero)]

ParseSalaries(frame) ==
    [i \in 1..Len(frame) |-> parse_salary_to_number(CleanRow(frame[i]).salary)]

\* lines 1349-1356: strip the text columns, then parse every salary
CleanAndParseSalaries ==
    /\ rank_pc = "deduplicated"
    /\ StageOver(CleanRows(df), "salary_numeric", ParseSalaries(df), "cleaned")
    /\ UNCHANGED <<jobs, use_ai, ai_results, enrich, run_outcome, salaryVars, scoreVars, scrapeVars, pageVars, browserVars>>

AIScores(frame) ==
    [i \in 1..Len(frame) |->
        ai_enhanced_relevance_scoring(frame[i], SearchKeywords, LocationKeywords,
                                      ai_results[frame[i].idx + 1])]

\* lines 1359-1364: df.apply(ai_enhanced_relevance_scoring, axis=1)
AIRelevanceScoring ==
    /\ rank_pc = "cleaned"
    /\ use_ai
    /\ StageOver(df, "relevance_score", AIScores(df), "scored")
    /\ UNCHANGED <<jobs, use_ai, ai_results, enrich, run_outcome, salaryVars, scoreVars, scrapeVars, pageVars, browserVars>>

\* the outcome of ai_enhanced_job_ranking taken over by process_and_rank_jobs
AfterRanking(out, failed) ==
    /\ enrich' = IF failed THEN "failed" ELSE "ok"
    /\ IF out.kind = "raise"
       THEN /\ rank_pc' = "done"
            /\ rank_ret' = out
            /\ UNCHANGED df
       ELSE /\ rank_pc' = "enriched"
            /\ df' = out.value
            /\ UNCHANGED rank_ret

\* line 1367: df = self.ai_enhanced_job_ranking(df, ...)
AIEnhancedRanking ==
    /\ rank_pc = "scored"
    /\ \E tie \in TieOrders : AfterRanking(ai_enhanced_job_ranking(df, tie), TryBlockRaises(df))
    /\ UNCHANGED <<jobs, use_ai, ai_results, run_outcome, salaryVars, scoreVars, scrapeVars, pageVars, browserVars>>

\* lines 1370-1374 and 1387: sort by final_ai_score, number the rows, return
\* with the insight text (ai_job_insights_generation catches its own errors)
SortByFinalScore ==
    /\ rank_pc = "enriched"
    /\ \E tie \in TieOrders :
          df' = WithRange(SortValues(df, "final_ai_score", tie), "rank", 1)
    /\ rank_pc' = "done"
    /\ rank_ret' = Return("ai insights")
    /\ UNCHANGED <<jobs, use_ai, ai_results, enrich, run_outcome, salaryVars, scoreVars, scrapeVars, pageVars, browserVars>>

TraditionalScores(frame) ==
    [i \in 1..Len(frame) |->
        calculate_relevance_score(frame[i], SearchKeywords, LocationKeywords)]

\* lines 1383-1387 once every row has its score
SortByRelevance(outs) ==
    IF Raising(outs) # {}
    THEN /\ rank_ret' = outs[Leftmost(Raising(outs))]
         /\ UNCHANGED df
    ELSE /\ \E tie \in TieOrders :
               df' = WithRange(SortValues(WithValues(df, "relevance_score", outs),
                                          "relevance_score", tie),
                               "rank", 1)
         /\ rank_ret' = Return("AI insights not available - using traditional scoring.")

\* lines 1376-1387: the traditional branch
TraditionalScoring ==
    /\ rank_pc = "cleaned"
    /\ ~use_ai
    /\ SortByRelevance(TraditionalScores(df))
    /\ rank_pc' = "done"
    /\ UNCHANGED <<jobs, use_ai, ai_results, enrich, run_outcome, salaryVars, scoreVars, scrapeVars, pageVars, browserVars>>

\* run_perfect_job_scraper, lines 1452-1592: with no job it reports that none was
\* found and returns; an exception out of process_and_rank_jobs is caught at line
\* 1587 and reported as an error with its traceback; an empty frame is reported
\* as no relevant job; otherwise the results are saved and shown
EntryPointEnds ==
    /\ rank_pc = "done"
    /\ run_outcome = "running"
    /\ run_outcome' =
          IF jobs = <<>> THEN "no jobs found"
          ELSE IF rank_ret.kind = "raise" THEN "error"
          ELSE IF df = <<>> THEN "no relevant jobs"
          ELSE "completed"
    /\ UNCHANGED <<jobs, use_ai, ai_results, df, rank_pc, enrich, rank_ret,
                   salaryVars, scoreVars, scrapeVars, pageVars, browserVars>>

NextRank ==
    \/ RemoveDuplicates
    \/ CleanAndParseSalaries
    \/ AIRelevanceScoring
    \/ AIEnhancedRanking
    \/ SortByFinalScore
    \/ TraditionalScoring
    \/ EntryPointEnds

SpecRank == InitRank /\ [][NextRank]_vars

\* a text field as a case- and space-insensitive key
NormalisedKey(v) == IF IsStr(v) THEN PyStr(Lower(Strip(v.s))) ELSE v

\* the rows of the slice that ai_enhanced_job_ranking scores, and the others
InSlice(row) == row.ai_rank <= TopK

\* C3: the collection left by the deduplication step is no larger than the input,
\* and no two of its records have the same (title, company) pair once both fields
\* are trimmed of surrounding whitespace and lowercased.
C3_DeduplicatedKeys ==
    rank_pc = "deduplicated" =>
        /\ Len(df) <= Len(jobs)
        /\ \A i, j \in 1..Len(df) :
              (/\ NormalisedKey(PyStr(df[i].title)) = NormalisedKey(PyStr(df[j].title))
               /\ NormalisedKey(df[i].company) = NormalisedKey(df[j].company)) => i = j

\* two records hold the same title and the same company, as drop_duplicates compares
SameKey(a, b) == a.title = b.title /\ a.company = b.company

\* C13: for every deduplication key of the input, the record kept is the one that
\* comes first in the input order (a record stays exactly when no earlier record
\* has its title and company), and the kept records are unchanged and in their
\* input order.
C13_FirstOccurrenceKept ==
    rank_pc = "deduplicated" =>
        /\ \A i \in 1..Len(df) : df[i] = DataFrame(jobs)[df[i].idx + 1]
        /\ \A i, j \in 1..Len(df) : i < j => df[i].idx < df[j].idx
        /\ \A p \in 1..Len(jobs) :
              (\A q \in 1..(p - 1) : ~SameKey(jobs[q], jobs[p]))
                  <=> (\E i \in 1..Len(df) : df[i].idx = p - 1)

C13_Witness ==
    /\ rank_pc = "deduplicated"
    /\ Len(df) < Len(jobs)
    /\ Len(df) >= TopK

\* C4: in the dataset process_and_rank_jobs returns, in both use_ai modes, the
\* rank values are exactly 1..N for N records, and the final score
\* (final_ai_score with enrichment, relevance_score without) does not increase
\* as rank increases.
C4_RankOrder ==
    (rank_pc = "done" /\ rank_ret.kind = "return" /\ df # <<>>) =>
        /\ \A k \in 1..Len(df) : Cardinality({i \in 1..Len(df) : df[i].rank = k}) = 1
        /\ \A i, j \in 1..Len(df) :
              df[i].rank < df[j].rank =>
                 RatLe(KeyOf(df[j], IF use_ai THEN "final_ai_score" ELSE "relevance_score"),
                       KeyOf(df[i], IF use_ai THEN "final_ai_score" ELSE "relevance_score"))

C4_Witness ==
    /\ rank_pc = "done"
    /\ rank_ret.kind = "return"
    /\ use_ai
    /\ Len(df) > TopK
    /\ KeyOf(df[1], "final_ai_score") # KeyOf(df[Len(df)], "final_ai_score")

\* C15: from the stage that computes it to the returned dataset, every record's
\* salary_numeric is parse_salary_to_number of that record's own salary text and
\* is never negative: scoring, enrichment, sorting and ranking leave it alone.
C15_SalaryNumeric ==
    (\/ rank_pc \in {"cleaned", "scored", "enriched"}
     \/ (rank_pc = "done" /\ rank_ret.kind = "return" /\ df # <<>>)) =>
        \A i \in 1..Len(df) :
            /\ Return(df[i].salary_numeric) = parse_salary_to_number(df[i].salary)
            /\ df[i].salary_numeric.n >= 0
            /\ df[i].salary_numeric.d > 0

C15_Witness ==
    /\ rank_pc = "done"
    /\ rank_ret.kind = "return"
    /\ enrich = "ok"
    /\ Len(df) > TopK
    /\ \E i \in 1..Len(df) : RatIsInt(df[i].salary_numeric, 140000) /\ df[i].rank = 1

\* every analysis the AI crew can give for a record
AnyAnalysis == AIResponses \cup {AINoScore}

\* C16: the relevance_score of a record is a non-negative integer that depends on
\* the record and the search criteria alone, in both use_ai modes: it is the
\* score the record gets under every analysis the AI crew could have given.
C16_ScoreIsPure ==
    (\/ rank_pc \in {"scored", "enriched"}
     \/ (rank_pc = "done" /\ rank_ret.kind = "return" /\ df # <<>>)) =>
        \A i \in 1..Len(df) :
            /\ df[i].relevance_score \in Nat
            /\ \A kickoff \in AnyAnalysis :
                  Return(df[i].relevance_score)
                     = IF use_ai
                       THEN ai_enhanced_relevance_scoring(df[i], SearchKeywords,
                                                          LocationKeywords, kickoff)
                       ELSE calculate_relevance_score(df[i], SearchKeywords, LocationKeywords)

\* C17: no combination of unparseable fields and enrichment failures puts a run
\* into an error state: process_and_rank_jobs does not raise, and the run ends
\* with a ranked dataset or, with no record, with the empty-result outcome (an
\* empty dataset with empty insight text, reported as no jobs found).
C17_NoErrorState ==
    /\ run_outcome # "error"
    /\ rank_pc = "done" =>
          /\ rank_ret.kind = "return"
          /\ IF jobs = <<>> THEN df = <<>> /\ rank_ret = Return("")
             ELSE HasColumn(df, "rank") /\ df # <<>>
    /\ run_outcome \in {"no jobs found", "no relevant jobs"} => jobs = <<>>

\* the scoring stage of process_and_rank_jobs has raised: the frame holds the
\* parsed salaries and no score
ScoringRaised ==
    /\ rank_pc = "done"
    /\ rank_ret.kind = "raise"
    /\ df # <<>>
    /\ HasColumn(df, "salary_numeric")
    /\ ~HasColumn(df, "relevance_score")

\* C23: with use_ai on, a record whose AI analysis raises or holds no
\* 'SCORE: <digits>' gets the relevance_score calculate_relevance_score gives for
\* it, and such a failure touches that record alone: the scoring stage does not
\* raise and every other record is scored.
C23_FallbackPerRecord ==
    use_ai =>
        /\ ~ScoringRaised
        /\ rank_pc = "scored" =>
              \A i \in 1..Len(df) :
                  ai_results[df[i].idx + 1].ai # "score" =>
                      Return(df[i].relevance_score)
                         = calculate_relevance_score(df[i], SearchKeywords, LocationKeywords)

\* the column the final sort goes by
FinalScoreColumn == IF use_ai THEN "final_ai_score" ELSE "relevance_score"

\* C14: in the final order, of two records with equal final score the one with
\* the higher relevance_score comes first, and with that equal too the one that
\* stood first before the sort (two rows never stand at the same place, so the
\* title never has to decide): the order does not hang on a choice of the sort.
C14_TieBreak ==
    (rank_pc = "done" /\ rank_ret.kind = "return" /\ df # <<>>) =>
        \A i, j \in 1..Len(df) :
            (i < j /\ KeyOf(df[i], FinalScoreColumn) = KeyOf(df[j], FinalScoreColumn)) =>
                \/ df[i].relevance_score > df[j].relevance_score
                \/ /\ df[i].relevance_score = df[j].relevance_score
                   /\ df[i].idx < df[j].idx

\* C5: when the enrichment step fails, process_and_rank_jobs still returns a
\* ranked dataset: no error leaves the function, and every record's final score
\* is its relevance_score.
C5_EnrichmentFallback ==
    enrich = "failed" =>
        /\ rank_ret.kind # "raise"
        /\ rank_pc = "done" =>
              \A i \in 1..Len(df) : df[i].final_ai_score = RatInt(df[i].relevance_score)

\* C6: the records that receive an enrichment score are the min(20, N) records
\* of highest relevance_score: every record inside the enriched slice has a
\* relevance_score greater than or equal to that of every record outside it.
C6_SliceIsTopByRelevance ==
    enrich = "ok" =>
        \A i, j \in 1..Len(df) :
            (InSlice(df[i]) /\ ~InSlice(df[j])) =>
                df[i].relevance_score >= df[j].relevance_score

\* C7: after a successful enrichment step, a record in the slice has final score
\* 0.6 * relevance_score + 0.4 * enrichment score; a record outside the slice
\* has enrichment score 0 and final score relevance_score.
C7_CombinedScore ==
    enrich = "ok" =>
        \A i \in 1..Len(df) :
            IF InSlice(df[i])
            THEN 10 * df[i].final_ai_score.n
                    = df[i].final_ai_score.d
                         * (6 * df[i].relevance_score + 4 * df[i].ai_career_score)
            ELSE /\ df[i].ai_career_score = 0
                 /\ df[i].final_ai_score = RatInt(df[i].relevance_score)

C7_Witness ==
    /\ enrich = "ok"
    /\ Len(df) > TopK
    /\ \E i \in 1..Len(df) :
          /\ InSlice(df[i])
          /\ df[i].ai_career_score > 0
          /\ df[i].ai_career_score # df[i].relevance_score

-----------------------------------------------------------------------------
(* SpecSalary: one call of parse_salary_to_number on any of its inputs.    *)

InitSalary ==
    /\ salary_text \in SalaryValues
    /\ salary_ret = NoCall
    /\ IdleScore
    /\ IdleRank
    /\ IdleScrape
    /\ IdlePages
    /\ IdleBrowser

CallParseSalary ==
    /\ salary_ret = NoCall
    /\ salary_ret' = parse_salary_to_number(salary_text)
    /\ UNCHANGED <<salary_text, scoreVars, rankVars, scrapeVars, pageVars, browserVars>>

NextSalary == CallParseSalary

SpecSalary == InitSalary /\ [][NextSalary]_vars

\* C9: parse_salary_to_number returns 110000 for "$100,000 - $120,000", 104000
\* for "$50/hour", 0 for "Not specified" and 90000 for "90k", and for every text
\* input it returns a number that is greater than or equal to 0.
C9_SalaryExamples ==
    (salary_ret # NoCall /\ IsStr(salary_text)) =>
        /\ salary_ret.kind = "return"
        /\ salary_ret.value.d > 0 /\ salary_ret.value.n >= 0
        /\ salary_text.s = "$100,000 - $120,000" => RatIsInt(salary_ret.value, 110000)
        /\ salary_text.s = "$50/hour" => RatIsInt(salary_ret.value, 104000)
        /\ salary_text.s = "Not specified" => RatIsInt(salary_ret.value, 0)
        /\ salary_text.s = "90k" => RatIsInt(salary_ret.value, 90000)

C9_Witness ==
    /\ salary_text = PyStr("$50/hour")
    /\ salary_ret = Return(RatInt(104000))

\* C10: parse_salary_to_number never propagates an error, whatever value the
\* salary field holds (text, None, or a value that is no text).
C10_NeverRaises == salary_ret.kind # "raise"

\* the value the range rule gives for the two parts around the separator at p:
\* the mean when both parts are non-zero, the non-zero one when one is, else 0
RangeRule(clean_text, p) ==
    LET low == extract_number(SubSeq(clean_text, 1, p - 1))
        high == extract_number(From(clean_text, p + 1))
    IN  IF low # RatZero /\ high # RatZero THEN RatHalf(RatAdd(low, high))
        ELSE IF low # RatZero THEN low
        ELSE IF high # RatZero THEN high
        ELSE RatZero

\* C24: for cleaned salary text that holds a range separator (hyphen, en dash or
\* em dash) parse_salary_to_number splits the text in two parts at a separator,
\* normalises each part on its own by the single-value rule, and returns the
\* mean when both parts are non-zero, the non-zero one when only one is, and 0
\* when neither is.
C24_RangeIsSplitInTwo ==
    (/\ salary_ret # NoCall
     /\ IsStr(salary_text)
     /\ salary_text.s \notin {"", "Not specified"}
     /\ RangeSeps(CleanText(salary_text.s)) # {}) =>
        \E p \in RangeSeps(CleanText(salary_text.s)) :
            salary_ret = Return(RangeRule(CleanText(salary_text.s), p))

\* C25: _extract_number gives, for a number with an adjacent k suffix, that
\* number times 1000; otherwise, for the first decimal number n of the text,
\* n*2080 if the text holds 'hour' or 'hr', else n*12 if it holds 'month' or
\* 'mo', else n if it holds 'year', 'yr' or 'annually' or n exceeds 1000, else
\* n*1000 (a bare 1000 is taken as thousands); text with no number gives 0.
C25_SingleValueRule ==
    (/\ salary_ret # NoCall
     /\ IsStr(salary_text)
     /\ salary_text.s \notin {"", "Not specified"}
     /\ RangeSeps(CleanText(salary_text.s)) = {}) =>
        LET text == CleanText(salary_text.s)
            n == FirstNumber(text, NumberStarts(text))
        IN  /\ salary_ret =
                 Return(IF KStarts(text) # {} THEN RatMul(FirstNumber(text, KStarts(text)), 1000)
                        ELSE IF NumberStarts(text) = {} THEN RatZero
                        ELSE IF Contains("hour", text) \/ Contains("hr", text)
                        THEN RatMul(n, 2080)
                        ELSE IF Contains("month", text) \/ Contains("mo", text)
                        THEN RatMul(n, 12)
                        ELSE IF \/ Contains("year", text) \/ Contains("yr", text)
                                \/ Contains("annually", text) \/ n.n > 1000 * n.d
                        THEN n
                        ELSE RatMul(n, 1000))
            /\ text = "1000" => RatIsInt(salary_ret.value, 1000000)
            /\ text = "1001" => RatIsInt(salary_ret.value, 1001)
            /\ text = "1000 a year" => RatIsInt(salary_ret.value, 1000)

C25_Witness ==
    /\ salary_text = PyStr("$1000")
    /\ salary_ret = Return(RatInt(1000000))

\* str(x) of a float x >= 0 below 1e16: the integer digits, a point and the
\* fraction digits ("600.0", "2500.5")
RECURSIVE FractionDigits(_, _)
FractionDigits(num, d) ==
    IF num = 0 THEN ""
    ELSE NatToStr((num * 10) \div d) \o FractionDigits((num * 10) % d, d)

DecimalText(r) ==
    NatToStr(r.n \div r.d) \o "."
        \o (IF r.n % r.d = 0 THEN "0" ELSE FractionDigits(r.n % r.d, r.d))

\* C19: parse_salary_to_number applied to the decimal text of one of its own
\* non-zero results returns that same value, and a repeated call on the same
\* text returns the same number.
C19_StableOnOwnResult ==
    (salary_ret # NoCall /\ IsStr(salary_text)) =>
        /\ parse_salary_to_number(salary_text) = salary_ret
        /\ (salary_ret.kind = "return" /\ salary_ret.value.n > 0) =>
              parse_salary_to_number(PyStr(DecimalText(salary_ret.value))) = salary_ret

-----------------------------------------------------------------------------
(* SpecScore: one call of calculate_relevance_score on any of its inputs.  *)

InitScore ==
    /\ score_job \in ScoreJobs
    /\ score_keywords \in ScoreKeywords
    /\ score_location \in ScoreLocationKeywords
    /\ score_ret = NoCall
    /\ IdleSalary
    /\ IdleRank
    /\ IdleScrape
    /\ IdlePages
    /\ IdleBrowser

CallRelevanceScore ==
    /\ score_ret = NoCall
    /\ score_ret' = calculate_relevance_score(score_job, score_keywords, score_location)
    /\ UNCHANGED <<score_job, score_keywords, score_location, salaryVars, rankVars, scrapeVars, pageVars, browserVars>>

NextScore == CallRelevanceScore

SpecScore == InitScore /\ [][NextScore]_vars

\* the number of terms of the list that occur in the text
TermsFound(terms, text) == Cardinality({i \in 1..Len(terms) : Contains(terms[i], text)})

\* the one salary tier a known salary falls in
TierOf(salary_numeric) ==
    CASE RatGe(salary_numeric, 150000) -> 15
      [] RatGe(salary_numeric, 120000) /\ ~RatGe(salary_numeric, 150000) -> 12
      [] RatGe(salary_numeric, 90000) /\ ~RatGe(salary_numeric, 120000) -> 8
      [] RatGe(salary_numeric, 60000) /\ ~RatGe(salary_numeric, 90000) -> 5
      [] ~RatGe(salary_numeric, 60000) -> 0

ScenarioJob ==
    Job("Senior Python Developer", PyStr("Acme"), "Remote", PyStr("$140,000"),
        "Build services in Python on AWS", "Indeed")

\* C8: calculate_relevance_score returns the sum of its additive components: 15,
\* 8 and 5 per search keyword found in the title, the company and the summary, 7
\* per location keyword found in the location, 5 for a senior title or else 3 for
\* a junior title (never both), 8 for a remote location and, for a salary above
\* 0 only, 10 plus one tier bonus; the scenario record of the spec scores 67.
C8_AdditiveScore ==
    score_ret.kind = "return" =>
        LET search_terms == KeywordTerms(score_keywords)
            location_terms == KeywordTerms(score_location)
            title == Lower(score_job.title)
            senior == AnyIn(<<"senior", "lead", "principal">>, title)
            junior == AnyIn(<<"junior", "entry", "intern">>, title)
            salary_numeric == parse_salary_to_number(score_job.salary).value
        IN  /\ score_ret.value =
                  15 * TermsFound(search_terms, title)
                + 8 * TermsFound(search_terms, Lower(score_job.company.s))
                + 5 * TermsFound(search_terms, Lower(score_job.summary))
                + 7 * TermsFound(location_terms, Lower(score_job.location))
                + (IF senior THEN 5 ELSE 0)
                + (IF junior /\ ~senior THEN 3 ELSE 0)
                + (IF AnyIn(<<"remote", "work from home">>, Lower(score_job.location))
                   THEN 8 ELSE 0)
                + (IF RatGt(salary_numeric, 0) THEN 10 + TierOf(salary_numeric) ELSE 0)
            /\ (score_job = ScenarioJob /\ score_keywords = "Python, AWS"
                    /\ score_location = "Remote") => score_ret.value = 67

C8_Witness ==
    /\ score_job = ScenarioJob
    /\ score_keywords = "Python, AWS"
    /\ score_location = "Remote"
    /\ score_ret = Return(67)

\* a keyword string that holds commas and spaces only
SeparatorOnly(keywords) == \A i \in 1..Len(keywords) : Ch(keywords, i) \in {",", " "}

\* C26: calculate_relevance_score splits the keyword string and the location
\* string at the commas into trimmed, lowercased terms and drops the empty ones:
\* an empty or separator-only keyword string gives 0 keyword points (an empty
\* term never counts as a match), and neither the case nor the blanks around a
\* term change the score.
C26_KeywordTerms ==
    score_ret.kind = "return" =>
        /\ (SeparatorOnly(score_keywords) /\ SeparatorOnly(score_location)) =>
              score_ret.value
                 = LevelBonus(Lower(score_job.title)) + RemoteBonus(Lower(score_job.location))
                   + SalaryBonus(parse_salary_to_number(score_job.salary).value)
        /\ SeparatorOnly(score_keywords) =>
              score_ret = calculate_relevance_score(score_job, "", score_location)
        /\ score_ret = calculate_relevance_score(score_job, Lower(score_keywords),
                                                 Lower(score_location))
        /\ score_ret = calculate_relevance_score(score_job, Remove(score_keywords, " "),
                                                 score_location)

C26_Witness ==
    /\ score_keywords = " , "
    /\ score_location = ""
    /\ score_job.title = "Senior Python Developer"
    /\ score_job.location = "Remote"
    /\ score_job.salary = PyStr("Not specified")
    /\ score_ret = Return(13)

-----------------------------------------------------------------------------
(* scrape_all_sources: six adapters on a pool of six threads, the main     *)
(* thread taking each future as it completes, then the API phase.  The     *)
(* page loop of an adapter is one step: what it reads from its site.       *)

Adapters == {"Indeed", "LinkedIn", "Glassdoor", "Monster", "ZipRecruiter", "CareerBuilder"}

\* the adapters that fetch with self.session (requests)
SessionAdapters == {"LinkedIn", "Glassdoor"}

\* the adapters that call self.driver.get() without calling setup_driver
DriverAdapters == {"Monster", "ZipRecruiter", "CareerBuilder"}

\* what a site lists for the search: a posting every site carries, and one of its own
Listings(site) ==
    <<Job("Python Developer", PyStr("Acme"), "Remote", PyStr("Not specified"), "", site),
      Job("Data Engineer", PyStr(site \o " Corp"), "Remote", PyStr("Not specified"), "", site)>>

\* what scrape_remote_apis returns: every source of it sits in its own try block
APIJobs == <<Job("Cloud Engineer", PyNone, "Remote", PyStr("90k"), "", "Remotive API")>>

\* lines 493-587 (and 596-690, 699-793): self.driver.get(url) on a driver that is
\* None raises AttributeError inside the try block, and the function returns the
\* empty list; otherwise the cards of the site are read
ScrapeWithDriver(site, the_driver) ==
    IF the_driver = "None" THEN Return(<<>>) ELSE Return(Listings(site))

\* lines 1234-1237: jobs = future.result(); all_jobs.extend(jobs)
CollectFutureOverwriting(merged, outcome) ==
    IF outcome.kind = "return" THEN outcome.value ELSE merged

CollectFuture(merged, outcome) ==
    IF outcome.kind = "return" THEN merged \o outcome.value ELSE merged

\* lines 1238-1241: if jobs: source_results[jobs[0].get('source')] = len(jobs)
TrackSourceOnce(counts, outcome) ==
    IF outcome.kind = "return" /\ outcome.value # <<>>
    THEN (outcome.value[1].source :> 1) @@ counts
    ELSE counts

TrackSource(counts, outcome) ==
    IF outcome.kind = "return" /\ outcome.value # <<>>
    THEN (outcome.value[1].source :> Len(outcome.value)) @@ counts
    ELSE counts

\* an adapter task touches self.driver
Access(task, modes) == {[task |-> task, mode |-> m] : m \in modes}

Finish(a, outcome) ==
    /\ worker_pc' = [worker_pc EXCEPT ![a] = "finished"]
    /\ future' = [future EXCEPT ![a] = outcome]

InitScrape ==
    /\ chrome_available \in BOOLEAN
    /\ driver = "None"
    /\ worker_pc = [a \in Adapters |-> "submitted"]
    /\ future = [a \in Adapters |-> NoCall]
    /\ collected = {}
    /\ all_jobs = <<>>
    /\ scrape_pc = "collecting"
    /\ scrape_ret = NoCall
    /\ source_results = <<>>
    /\ driver_access = {}
    /\ browsers_created = 0
    /\ run_exit = "running"
    /\ close_calls = 0
    /\ quit_calls = 0
    /\ IdleSalary
    /\ IdleScore
    /\ IdleRank
    /\ IdlePages
    /\ IdleBrowser

\* lines 131-148 called at line 153, outside every try block of the adapter: the
\* browser starts, or webdriver.Chrome() raises and so does the future
SetupDriver ==
    /\ worker_pc["Indeed"] = "submitted"
    /\ IF driver # "None"
       THEN /\ worker_pc' = [worker_pc EXCEPT !["Indeed"] = "ready"]
            /\ driver_access' = driver_access \cup Access("Indeed", {"read"})
            /\ UNCHANGED <<driver, future>>
       ELSE IF chrome_available
       THEN /\ driver' = "chrome"
            /\ worker_pc' = [worker_pc EXCEPT !["Indeed"] = "ready"]
            /\ driver_access' = driver_access \cup Access("Indeed", {"read", "write"})
            /\ UNCHANGED future
       ELSE /\ Finish("Indeed", Raise("WebDriverException"))
            /\ driver_access' = driver_access \cup Access("Indeed", {"read"})
            /\ UNCHANGED driver
    /\ browsers_created' = IF driver = "None" /\ chrome_available THEN browsers_created + 1
                           ELSE browsers_created
    /\ UNCHANGED <<chrome_available, collected, all_jobs, scrape_pc, scrape_ret, source_results,
                   salaryVars, scoreVars, rankVars, pageVars, browserVars, runVars>>

\* lines 158-283: the pages of Indeed, each in its own try block
ScrapeIndeed ==
    /\ worker_pc["Indeed"] = "ready"
    /\ Finish("Indeed", Return(Listings("Indeed")))
    /\ driver_access' = driver_access \cup Access("Indeed", {"read"})
    /\ UNCHANGED <<browsers_created, chrome_available, driver, collected, all_jobs, scrape_pc, scrape_ret,
                   source_results, salaryVars, scoreVars, rankVars, pageVars, browserVars, runVars>>

\* lines 285-403 and 405-487: a request that fails is caught in the adapter, which
\* then returns what it has
ScrapeWithSession(a) ==
    /\ worker_pc[a] = "submitted"
    /\ \E got \in {<<>>, Listings(a)} : Finish(a, Return(got))
    /\ UNCHANGED <<browsers_created, chrome_available, driver, collected, all_jobs, scrape_pc, scrape_ret,
                   source_results, driver_access, salaryVars, scoreVars, rankVars, pageVars, browserVars, runVars>>

\* lines 489-590, 592-693, 695-796
ScrapeWithSharedDriver(a) ==
    /\ worker_pc[a] = "submitted"
    /\ Finish(a, ScrapeWithDriver(a, driver))
    /\ driver_access' = driver_access \cup Access(a, {"read"})
    /\ UNCHANGED <<browsers_created, chrome_available, driver, collected, all_jobs, scrape_pc, scrape_ret,
                   source_results, salaryVars, scoreVars, rankVars, pageVars, browserVars, runVars>>

\* lines 1233-1243: one turn of the loop over as_completed(futures)
CollectResult(a) ==
    /\ scrape_pc = "collecting"
    /\ worker_pc[a] = "finished"
    /\ a \notin collected
    /\ collected' = collected \cup {a}
    /\ all_jobs' = CollectFuture(all_jobs, future[a])
    /\ source_results' = TrackSource(source_results, future[a])
    /\ UNCHANGED <<browsers_created, chrome_available, driver, worker_pc, future, scrape_pc, scrape_ret,
                   driver_access, salaryVars, scoreVars, rankVars, pageVars, browserVars, runVars>>

\* an API phase that puts its records in front of the collected ones
ExtendInFront(jobs_so_far, api_jobs) == api_jobs \o jobs_so_far

\* line 1248: all_jobs.extend(api_jobs)
ExtendWithAPIJobs(jobs_so_far, api_jobs) == jobs_so_far \o api_jobs

\* lines 1245-1264: the API phase and the return; it follows the with block of
\* the executor, which ends when every task has finished and been collected
ScrapeAPIs ==
    /\ scrape_pc = "collecting"
    /\ collected = Adapters
    /\ all_jobs' = ExtendWithAPIJobs(all_jobs, APIJobs)
    /\ source_results' = IF APIJobs # <<>> THEN ("APIs" :> Len(APIJobs)) @@ source_results
                          ELSE source_results
    /\ scrape_pc' = "returned"
    /\ scrape_ret' = Return(all_jobs')
    /\ UNCHANGED <<browsers_created, chrome_available, driver, worker_pc, future, collected, driver_access,
                   salaryVars, scoreVars, rankVars, pageVars, browserVars, runVars>>

\* the paths that leave the try block of run_perfect_job_scraper once
\* scrape_all_sources has returned, lines 1455-1590: the two early returns, the
\* end of the block, and an exception caught at line 1587
ExitPaths(found) ==
    IF found = <<>> THEN {"no jobs found"}
    ELSE {"no relevant jobs", "completed", "error"}

\* lines 1452-1590: the rest of the try block
LeaveTryBlock ==
    /\ scrape_pc = "returned"
    /\ run_exit = "running"
    /\ run_exit' \in ExitPaths(all_jobs)
    /\ UNCHANGED <<browsers_created, chrome_available, driver, worker_pc, future, collected,
                   all_jobs, scrape_pc, scrape_ret, source_results, driver_access, close_calls,
                   quit_calls, salaryVars, scoreVars, rankVars, pageVars, browserVars>>

\* a close_driver that quits the browser and keeps the reference
DriverKeptAfterClose(the_driver) == the_driver

\* lines 1391-1393: if self.driver: self.driver.quit(); self.driver = None
DriverAfterClose(the_driver) == IF the_driver # "None" THEN "None" ELSE the_driver

\* close_driver: the call in the finally block (line 1592), and a call after it
CloseDriver ==
    /\ run_exit \notin {"idle", "running"}
    /\ close_calls < 2
    /\ close_calls' = close_calls + 1
    /\ quit_calls' = IF driver # "None" THEN quit_calls + 1 ELSE quit_calls
    /\ driver' = DriverAfterClose(driver)
    /\ UNCHANGED <<browsers_created, chrome_available, worker_pc, future, collected, all_jobs,
                   scrape_pc, scrape_ret, source_results, driver_access, run_exit,
                   salaryVars, scoreVars, rankVars, pageVars, browserVars>>

NextScrape ==
    \/ SetupDriver
    \/ ScrapeIndeed
    \/ \E a \in SessionAdapters : ScrapeWithSession(a)
    \/ \E a \in DriverAdapters : ScrapeWithSharedDriver(a)
    \/ \E a \in Adapters : CollectResult(a)
    \/ ScrapeAPIs
    \/ LeaveTryBlock
    \/ CloseDriver

SpecScrape == InitScrape /\ [][NextScrape]_vars

\* every task of the pool and the main thread go on until they are done
SpecScrapeLive == SpecScrape /\ WF_vars(NextScrape)

\* the adapters whose future holds a list
Succeeded == {a \in Adapters : future[a].kind = "return"}

\* the records of the merged list that the primary adapters gave
FromAdapters == SubSeq(all_jobs, 1, Len(all_jobs) - Len(APIJobs))

\* C1: whatever the outcomes of the six adapters, scrape_all_sources does not
\* raise, and the merged list holds exactly the records of the adapters that
\* returned, each once, followed by the records of the API phase.
C1_PartialFailure ==
    /\ scrape_ret.kind # "raise"
    /\ scrape_pc = "returned" =>
          /\ scrape_ret = Return(all_jobs)
          /\ SubSeq(all_jobs, Len(FromAdapters) + 1, Len(all_jobs)) = APIJobs
          /\ \A i \in 1..Len(FromAdapters) :
                \E a \in Succeeded : \E k \in 1..Len(future[a].value) :
                    FromAdapters[i] = future[a].value[k]
          /\ \A a \in Succeeded : \A k \in 1..Len(future[a].value) :
                Cardinality({i \in 1..Len(FromAdapters) :
                                FromAdapters[i] = future[a].value[k]}) = 1

C1_Witness ==
    /\ scrape_pc = "returned"
    /\ future["Indeed"].kind = "raise"
    /\ future["LinkedIn"] = Return(Listings("LinkedIn"))
    /\ future["Glassdoor"] = Return(Listings("Glassdoor"))

\* C2: what an adapter returns does not depend on another adapter: the records of
\* Monster, ZipRecruiter and CareerBuilder are the same whether or not the
\* browser setup of the Indeed adapter has succeeded by the time they run.
C2_IndependentOfSetup ==
    \A a \in DriverAdapters :
        future[a] # NoCall =>
            \A the_driver \in {"None", "chrome"} : future[a] = ScrapeWithDriver(a, the_driver)

\* C11: during the fan-out no adapter task reads or writes mutable state that
\* another adapter task writes: whenever two different tasks have touched
\* self.driver, both have only read it.
C11_NoSharedMutableState ==
    \A x, y \in driver_access : x.task # y.task => (x.mode = "read" /\ y.mode = "read")

\* lines 1225-1230: the order in which the adapters are submitted
SubmitOrder == <<"Indeed", "LinkedIn", "Glassdoor", "Monster", "ZipRecruiter", "CareerBuilder">>

\* the records of the returned futures, taken in a given order of the adapters
RECURSIVE ReturnedInOrder(_)
ReturnedInOrder(order) ==
    IF order = <<>> THEN <<>>
    ELSE (IF future[Head(order)].kind = "return" THEN future[Head(order)].value ELSE <<>>)
         \o ReturnedInOrder(Tail(order))

\* what the deduplication step of process_and_rank_jobs (line 1345) keeps of a list
\* of records
KeptKeys(kept) ==
    {[title |-> kept[i].title, company |-> kept[i].company, source |-> kept[i].source] :
        i \in 1..Len(kept)}

Survivors(records) == KeptKeys(DropDuplicates(DataFrame(records)))

\* C12: when two sources return records of the same deduplication key, the one
\* that survives comes from the source that is earlier in a fixed priority order
\* (the order of submission), whatever order the tasks complete in: the
\* deduplicated dataset is the one the priority order gives.
C12_PriorityDecidesSurvivor ==
    scrape_pc = "returned" =>
        Survivors(all_jobs) = Survivors(ReturnedInOrder(SubmitOrder) \o APIJobs)

\* the records of the merged list that carry a source tag, and those of the API phase
CountOf(source) == Cardinality({i \in 1..Len(all_jobs) : all_jobs[i].source = source})
APICount == Cardinality({i \in 1..Len(all_jobs) : all_jobs[i].source \notin Adapters})

RECURSIVE SumCounts(_)
SumCounts(counts) ==
    IF DOMAIN counts = {} THEN 0
    ELSE LET k == CHOOSE k \in DOMAIN counts : TRUE
         IN  counts[k] + SumCounts([j \in DOMAIN counts \ {k} |-> counts[j]])

\* C18: when scrape_all_sources returns, the summary holds for each source that
\* contributed exactly the number of its records in the merged list (the API
\* sources under one entry), the counts add up to the size of the merged list,
\* and a source that failed or returned nothing has no entry.
C18_SourceSummary ==
    scrape_pc = "returned" =>
        /\ \A k \in DOMAIN source_results :
              source_results[k] = IF k = "APIs" THEN APICount ELSE CountOf(k)
        /\ \A k \in DOMAIN source_results : source_results[k] > 0
        /\ SumCounts(source_results) = Len(all_jobs)
        /\ \A a \in Adapters :
              (future[a].kind = "raise" \/ future[a] = Return(<<>>)) =>
                  a \notin DOMAIN source_results

C18_Witness ==
    /\ scrape_pc = "returned"
    /\ future["Indeed"].kind = "raise"
    /\ future["Glassdoor"] = Return(<<>>)
    /\ "LinkedIn" \in DOMAIN source_results
    /\ source_results["LinkedIn"] = Len(Listings("LinkedIn"))
    /\ "APIs" \in DOMAIN source_results

\* a record of the API phase: its source is none of the six adapters
IsAPIRecord(job) == job.source \notin Adapters

\* C22: the API-style sources are queried only after every primary adapter task
\* has finished (returned or raised) and been collected, and their records are
\* appended to the same list, after all records of the primary adapters.
C22_APIsAfterFanOut ==
    /\ (\E i \in 1..Len(all_jobs) : IsAPIRecord(all_jobs[i])) =>
          /\ \A a \in Adapters : worker_pc[a] = "finished" /\ future[a] # NoCall
          /\ collected = Adapters
    /\ \A i, j \in 1..Len(all_jobs) :
          (i < j /\ IsAPIRecord(all_jobs[i])) => IsAPIRecord(all_jobs[j])
    /\ scrape_pc = "returned" =>
          /\ Len(all_jobs) >= Len(APIJobs)
          /\ \A k \in 1..Len(APIJobs) :
                all_jobs[Len(all_jobs) - Len(APIJobs) + k] = APIJobs[k]
          /\ Cardinality({i \in 1..Len(all_jobs) : IsAPIRecord(all_jobs[i])}) = Len(APIJobs)

C22_Witness ==
    /\ scrape_pc = "returned"
    /\ future["Indeed"].kind = "raise"
    /\ future["Monster"].kind = "return"
    /\ Len(all_jobs) > Len(APIJobs) + 2
    /\ IsAPIRecord(all_jobs[Len(all_jobs)])

-----------------------------------------------------------------------------
(* SpecPages: the page loop of one paginated adapter. What a page gives is  *)
(* the site's answer, drawn anew for every request.                         *)

MaxPages == 3

\* what one pass of the loop body can meet: records extracted, the wait for the
\* cards timing out, an empty card list, cards of which none gives a record, or
\* an exception of the request or the parsing
DriverPageOutcomes == {"records", "timeout", "no cards", "zero extracted", "error"}
\* requests has no wait: its timeout is an exception of session.get
SessionPageOutcomes == {"records", "no cards", "zero extracted", "error"}

\* the statement that ends a pass of Indeed's loop body, lines 159-280
IndeedControl(outcome) ==
    CASE outcome = "timeout" -> "break"
      [] outcome = "no cards" -> "break"
      [] outcome = "zero extracted" -> "break"
      [] outcome = "error" -> "continue"
      [] OTHER -> "next"

\* LinkedIn, lines 291-400
LinkedInControl(outcome) ==
    CASE outcome = "no cards" -> "break"
      [] outcome = "zero extracted" -> "break"
      [] outcome = "error" -> "continue"
      [] OTHER -> "next"

\* Glassdoor, lines 410-484: the try block is around the whole loop
GlassdoorControl(outcome) ==
    CASE outcome = "no cards" -> "break"
      [] outcome = "zero extracted" -> "break"
      [] outcome = "error" -> "raise"
      [] OTHER -> "next"

\* Monster, ZipRecruiter and CareerBuilder, lines 494-587, 597-690, 700-793: a
\* timed out wait goes on to the next page, an empty card list leaves page_jobs
\* at 0, and the try block is around the whole loop
MonsterControl(outcome) ==
    CASE outcome = "timeout" -> "continue"
      [] outcome = "no cards" -> "break"
      [] outcome = "zero extracted" -> "break"
      [] outcome = "error" -> "raise"
      [] OTHER -> "next"

\* whether a pass of a Selenium adapter's loop body reaches a time.sleep: the
\* first one follows get(url) (lines 164, 500, 603, 706), so every pass sleeps
\* unless get(url) itself raised
DriverSleeps(outcome) == IF outcome = "error" THEN BOOLEAN ELSE {TRUE}

\* a requests adapter sleeps only at the end of the loop body (lines 396, 481),
\* which a pass reaches when the page gave records
SessionSleeps(outcome) == {outcome = "records"}

\* a loop that requests one page more than max_pages
LoopEndsOnePageLate(control, requested, budget) ==
    control \in {"break", "raise"} \/ requested = budget + 1

\* the loop is left by break, by an exception caught outside it, or when
\* range(max_pages) is used up
LoopEnds(control, requested, budget) ==
    control \in {"break", "raise"} \/ requested = budget

\* a handler that drops what the earlier pages gave
JobsRolledBack(jobs_so_far, outcome, page_number) ==
    IF outcome = "records" THEN Append(jobs_so_far, page_number)
    ELSE IF outcome = "error" THEN <<>>
    ELSE jobs_so_far

\* jobs.append(job_data), lines 264, 385, 470, 573, 676, 779: a page with
\* records adds them to the list, and nothing takes a record out of it
JobsAfterPass(jobs_so_far, outcome, page_number) ==
    IF outcome = "records" THEN Append(jobs_so_far, page_number) ELSE jobs_so_far

\* the max_pages scrape_all_sources passes to each adapter, lines 1225-1230
Budget(a) ==
    CASE a = "Indeed" -> 10
      [] a = "LinkedIn" -> 5
      [] OTHER -> 3

\* one pass of `for page in range(max_pages)`: the page is requested, and the
\* loop is left by break, by an exception caught outside it or by the end of
\* the range
LoopPass(outcome, control, slept) ==
    /\ page_pc = "loop"
    /\ page_log' = Append(page_log, [page |-> page + 1, outcome |-> outcome, slept |-> slept])
    /\ adapter_jobs' = JobsAfterPass(adapter_jobs, outcome, page + 1)
    /\ IF LoopEnds(control, page + 1, max_pages)
       THEN page_pc' = "returned" /\ page' = page /\ page_ret' = Return(adapter_jobs')
       ELSE page_pc' = "loop" /\ page' = page + 1 /\ UNCHANGED page_ret
    /\ UNCHANGED <<page_adapter, max_pages, salaryVars, scoreVars, rankVars, scrapeVars, browserVars>>

InitPages ==
    /\ page_adapter \in Adapters
    /\ max_pages \in (1..MaxPages) \cup {Budget(page_adapter)}
    /\ page = 0
    /\ page_log = <<>>
    /\ page_pc = "loop"
    /\ adapter_jobs = <<>>
    /\ page_ret = NoCall
    /\ IdleSalary
    /\ IdleScore
    /\ IdleRank
    /\ IdleScrape
    /\ IdleBrowser

IndeedPage ==
    /\ page_adapter = "Indeed"
    /\ \E o \in DriverPageOutcomes : \E slept \in DriverSleeps(o) :
          LoopPass(o, IndeedControl(o), slept)

LinkedInPage ==
    /\ page_adapter = "LinkedIn"
    /\ \E o \in SessionPageOutcomes : \E slept \in SessionSleeps(o) :
          LoopPass(o, LinkedInControl(o), slept)

GlassdoorPage ==
    /\ page_adapter = "Glassdoor"
    /\ \E o \in SessionPageOutcomes : \E slept \in SessionSleeps(o) :
          LoopPass(o, GlassdoorControl(o), slept)

MonsterPage ==
    /\ page_adapter = "Monster"
    /\ \E o \in DriverPageOutcomes : \E slept \in DriverSleeps(o) :
          LoopPass(o, MonsterControl(o), slept)

ZipRecruiterPage ==
    /\ page_adapter = "ZipRecruiter"
    /\ \E o \in DriverPageOutcomes : \E slept \in DriverSleeps(o) :
          LoopPass(o, MonsterControl(o), slept)

CareerBuilderPage ==
    /\ page_adapter = "CareerBuilder"
    /\ \E o \in DriverPageOutcomes : \E slept \in DriverSleeps(o) :
          LoopPass(o, MonsterControl(o), slept)

NextPages ==
    \/ IndeedPage
    \/ LinkedInPage
    \/ GlassdoorPage
    \/ MonsterPage
    \/ ZipRecruiterPage
    \/ CareerBuilderPage

SpecPages == InitPages /\ [][NextPages]_vars

\* every page request returns or raises, so the pass that has begun is finished
SpecPagesLive == SpecPages /\ WF_vars(NextPages)

\* a page that yields zero records in one of the three ways the claim names
EmptyPage(entry) == entry.outcome \in {"no cards", "timeout", "zero extracted"}

\* C20: in every paginated adapter the pages are requested one at a time in
\* increasing page order, no page is requested after the first page that yields
\* zero records (an empty card list, a wait timeout or zero extracted records),
\* and the loop ends only at such a page, at a failed page or with the page
\* budget exhausted.
C20_StopsAtFirstEmptyPage ==
    /\ \A i \in 1..Len(page_log) :
          /\ page_log[i].page = i
          /\ EmptyPage(page_log[i]) => (i = Len(page_log) /\ page_pc = "returned")
    /\ Len(page_log) <= max_pages
    /\ page_pc = "returned" =>
          \/ Len(page_log) = max_pages
          \/ page_log[Len(page_log)].outcome # "records"

\* C21: between any two consecutive page requests of one adapter there is a
\* randomized delay, on every path through the page loop, the path on which the
\* earlier request raised an error and the loop goes on included: every pass
\* that is followed by another request has slept.
C21_DelayBetweenRequests ==
    \A i \in 1..Len(page_log) : i < Len(page_log) => page_log[i].slept

\* C28: each paginated adapter issues at most as many page requests as its page
\* budget (10 for Indeed, 5 for LinkedIn, 3 each for Glassdoor, Monster,
\* ZipRecruiter and CareerBuilder as scrape_all_sources passes them) and then
\* returns, whatever mix of empty pages, wait timeouts and per-page errors it
\* meets, provided every page request returns or raises.
C28_BudgetThenReturn ==
    /\ [](/\ Len(page_log) <= max_pages
          /\ page <= max_pages
          /\ Budget(page_adapter)
                = (IF page_adapter = "Indeed" THEN 10
                   ELSE IF page_adapter = "LinkedIn" THEN 5
                   ELSE 3)
          /\ page_pc = "returned" => page_ret.kind = "return")
    /\ <>(page_pc = "returned")

C28_Witness ==
    /\ page_pc = "returned"
    /\ max_pages = Budget(page_adapter)
    /\ Len(page_log) = max_pages
    /\ \E i, j \in 1..Len(page_log) :
          page_log[i].outcome = "error" /\ page_log[j].outcome = "records"
    /\ page_adapter = "Indeed"

\* C29: the records an adapter has extracted from earlier pages stay in the list
\* it returns when a later page request fails or gives nothing: an error on
\* page n takes no record of the pages before n away, and the adapter returns
\* its list instead of raising (Glassdoor, Monster, ZipRecruiter and
\* CareerBuilder stop at the error; Indeed and LinkedIn skip the failed page
\* and go on to the next).
C29_EarlierRecordsKept ==
    /\ page_ret.kind # "raise"
    /\ \A i \in 1..Len(page_log) :
          /\ page_log[i].outcome = "records" =>
                Cardinality({k \in 1..Len(adapter_jobs) : adapter_jobs[k] = i}) = 1
          /\ (page_log[i].outcome = "error" /\ i < Len(page_log)) =>
                page_adapter \in {"Indeed", "LinkedIn"}
          /\ (page_log[i].outcome = "error" /\ page_adapter \notin {"Indeed", "LinkedIn"}) =>
                page_pc = "returned"
          /\ (page_log[i].outcome = "error" /\ page_adapter \in {"Indeed", "LinkedIn"}
                 /\ i < max_pages /\ page_pc = "returned") => i < Len(page_log)
    /\ page_pc = "returned" => page_ret = Return(adapter_jobs)

C29_Witness ==
    /\ page_pc = "returned"
    /\ page_adapter = "Glassdoor"
    /\ Len(page_log) = 2
    /\ page_log[1].outcome = "records"
    /\ page_log[2].outcome = "error"
    /\ page_ret = Return(<<1>>)

-----------------------------------------------------------------------------
(* SpecBrowser: the four adapter tasks that drive the one browser of the    *)
(* scraper, self.driver, each from its own thread of the pool. A step is    *)
(* one command sent to the browser.                                         *)

\* the adapters that call self.driver.get: Indeed, and the three that do not
\* call setup_driver
BrowserAdapters == {"Indeed"} \cup DriverAdapters

\* the position of a task after a pass of its page loop
NextPass(a) == IF task_page[a] < MaxPages THEN "get" ELSE "done"

InitBrowser ==
    /\ shown = "no browser"
    /\ task_pc = [a \in BrowserAdapters |-> IF a = "Indeed" THEN "setup" ELSE "get"]
    /\ task_page = [a \in BrowserAdapters |-> 0]
    /\ last_read = <<>>
    /\ IdleSalary
    /\ IdleScore
    /\ IdleRank
    /\ IdleScrape
    /\ IdlePages

\* line 153, lines 131-148: Indeed creates the browser, or webdriver.Chrome
\* raises and the task ends
SetupBrowser ==
    /\ task_pc["Indeed"] = "setup"
    /\ \E created \in BOOLEAN :
          IF created
          THEN /\ shown' = "about:blank"
               /\ task_pc' = [task_pc EXCEPT !["Indeed"] = "get"]
          ELSE /\ task_pc' = [task_pc EXCEPT !["Indeed"] = "done"]
               /\ UNCHANGED shown
    /\ UNCHANGED <<task_page, last_read, salaryVars, scoreVars, rankVars, scrapeVars, pageVars>>

\* self.driver.get(url), lines 163, 499, 602, 705: the browser loads the page of
\* the calling adapter; with self.driver still None the call raises
\* AttributeError, which the try block around the loop catches
GetPage(a) ==
    /\ task_pc[a] = "get"
    /\ IF shown = "no browser"
       THEN /\ task_pc' = [task_pc EXCEPT ![a] = "done"]
            /\ UNCHANGED <<shown, task_page>>
       ELSE /\ shown' = a
            /\ task_page' = [task_page EXCEPT ![a] = @ + 1]
            /\ task_pc' = [task_pc EXCEPT ![a] = "wait"]
    /\ UNCHANGED <<last_read, salaryVars, scoreVars, rankVars, scrapeVars, pageVars>>

\* WebDriverWait(...).until(presence_of_element_located(...)), lines 167-173,
\* 503-509, 606-612, 709-715: the cards are there, or the wait times out and
\* Indeed leaves its loop while the other three go on to their next page
WaitForCards(a) ==
    /\ task_pc[a] = "wait"
    /\ \E present \in BOOLEAN :
          task_pc' = [task_pc EXCEPT ![a] = IF present THEN "find"
                                           ELSE IF a = "Indeed" THEN "done"
                                           ELSE NextPass(a)]
    /\ UNCHANGED <<shown, task_page, last_read, salaryVars, scoreVars, rankVars, scrapeVars,
                   pageVars>>

\* self.driver.find_elements(...), lines 175, 511, 614, 717, and the loop over
\* the cards: they are read from the page the browser shows at that moment; a
\* page that gives no record ends the loop
FindCards(a) ==
    /\ task_pc[a] = "find"
    /\ last_read' = <<[task |-> a, shown |-> shown]>>
    /\ \E page_jobs \in {0, 1} :
          task_pc' = [task_pc EXCEPT ![a] = IF page_jobs = 0 THEN "done" ELSE NextPass(a)]
    /\ UNCHANGED <<shown, task_page, salaryVars, scoreVars, rankVars, scrapeVars, pageVars>>

NextBrowser ==
    \/ SetupBrowser
    \/ \E a \in BrowserAdapters : GetPage(a)
    \/ \E a \in BrowserAdapters : WaitForCards(a)
    \/ \E a \in BrowserAdapters : FindCards(a)

SpecBrowser == InitBrowser /\ [][NextBrowser]_vars

\* C27: whenever a browser-backed adapter (Indeed, Monster, ZipRecruiter,
\* CareerBuilder) reads job cards, the shared browser shows the page this same
\* adapter requested last, under every interleaving of the four tasks, so that
\* the source label of a record names the adapter whose page it was read from.
C27_ReadsOwnPage ==
    \A i \in 1..Len(last_read) : last_read[i].shown = last_read[i].task

====
